---- MODULE Spec2Model ----
(***************************************************************************)
(* State-machine model of snow_ranger's acquire-once / publish-once        *)
(* pipeline: read_ranger_mqtt.py (main, read_from_ranger,                   *)
(* read_from_ranger_uart, read_from_ranger_gpio, send_to_mqtt).            *)
(*                                                                         *)
(* Bytes are their numeric values (0..255), decoded text is a sequence of  *)
(* Unicode code points.  The clock counts whole seconds, so a sleep of     *)
(* 0.1 s moves it by one second or not at all.  An exception is a sequence  *)
(* of exception names: the head is the exception that propagates, the tail *)
(* is its __context__ chain (Python's implicit chaining of an exception    *)
(* raised while another one is being handled).                             *)
(*                                                                         *)
(* Modelling decisions: the clock moves only in time.sleep; every call on  *)
(* the serial port, on pigpio and on the MQTT client may return or raise,  *)
(* except the constructors pigpio.pi() and mqtt.Client(), which return; a  *)
(* KeyboardInterrupt may arrive before any statement outside the except    *)
(* and finally handlers, at most once per run; the pattern is the default  *)
(* ^R(\d{4})$ and data_bits is one of argparse's choices, so the           *)
(* ValueError branch of read_from_ranger_uart is unreachable.              *)
(*                                                                         *)
(* Spec is one run of main.  SpecFeed applies the frame-assembly           *)
(* statements of a loop iteration to every way of cutting a byte sequence  *)
(* into polls.                                                             *)
(***************************************************************************)
EXTENDS Integers, Sequences, FiniteSets, TLC

(* ------------------------------------------------------------------ *)
(* Bounds of the model                                                  *)
(* ------------------------------------------------------------------ *)
\* longest enumerated sensor stream over StreamAlphabet
MaxStreamLen == 2
\* longest enumerated input of the frame-assembly steps over FeedAlphabet
MaxFeedLen == 3
\* a sleep may overshoot its nominal duration by up to this many seconds
MaxOvershoot == 1
\* the counter of non-empty polls saturates here
MaxPollCount == 3

(* ------------------------------------------------------------------ *)
(* Program constants                                                    *)
(* ------------------------------------------------------------------ *)
\* timeout = 20  (seconds)
Timeout == 20
\* time.sleep(1) before the flush
SettleSecs == 1
\* --serial-gpio default, "no GPIO configured"
NoGpio == -1
\* a configured GPIO pin (the help text's example pin)
GpioPin == 15
\* --mqtt-port default
DefaultMqttPort == 1883

\* b'\r', the frame delimiter
CR == 13
\* "\n", before which $ also matches
LF == 10
\* the "R" of the pattern
ByteR == 82
\* U+FFFD REPLACEMENT CHARACTER, produced by errors="replace"
ReplacementChar == 65533

NoneStr == "None"
NoPort == ""
DevicePath == "/dev/ttyS0"
BrokerHost == "192.168.1.39"
Topic == "snowdata/921a_18"

(* ------------------------------------------------------------------ *)
(* Pure functions                                                       *)
(* ------------------------------------------------------------------ *)
Min(a, b) == IF a < b THEN a ELSE b

Take(s, n) == SubSeq(s, 1, n)
Drop(s, n) == SubSeq(s, n + 1, Len(s))

Contains(s, b) == \E i \in 1..Len(s) : s[i] = b

\* index of the first occurrence of b in s, 0 when absent
RECURSIVE FindFrom(_, _, _)
FindFrom(s, b, i) ==
    IF i > Len(s) THEN 0
    ELSE IF s[i] = b THEN i
    ELSE FindFrom(s, b, i + 1)

Find(s, b) == FindFrom(s, b, 1)

\* mutant: the separator stays at the front of the tail
PartitionKeepSep(s) ==
    LET i == Find(s, CR) IN
    IF i = 0 THEN << s, <<>>, <<>> >>
    ELSE << Take(s, i - 1), <<CR>>, Drop(s, i - 1) >>

\* bytes.partition(b'\r'): <<head, sep, tail>>; without a separator the
\* whole input is the head and sep, tail are empty
Partition(s) ==
    LET i == Find(s, CR) IN
    IF i = 0 THEN << s, <<>>, <<>> >>
    ELSE << Take(s, i - 1), <<CR>>, Drop(s, i) >>

IsContinuation(b) == b \in 128..191
IsLead2(b) == b \in 194..223

\* bytes.decode("utf-8", errors="replace") for one- and two-byte sequences
\* (lead bytes 0xE0..0xF4 of longer sequences are outside the modelled
\* byte alphabet): an ASCII byte is its code point, a valid two-byte
\* sequence is one code point, every other byte becomes U+FFFD.
RECURSIVE Decode(_)
Decode(bs) ==
    IF bs = <<>> THEN <<>>
    ELSE LET b == Head(bs) IN
         IF b < 128 THEN <<b>> \o Decode(Tail(bs))
         ELSE IF IsLead2(b) /\ Len(bs) >= 2 /\ IsContinuation(bs[2])
              THEN << (b - 192) * 64 + (bs[2] - 128) >> \o Decode(Drop(bs, 2))
         ELSE <<ReplacementChar>> \o Decode(Tail(bs))

\* str.isspace() for the code points Decode can produce
IsSpace(c) == c \in (9..13) \cup (28..32) \cup {133, 160}

RECURSIVE LStrip(_)
LStrip(s) ==
    IF s # <<>> /\ IsSpace(Head(s)) THEN LStrip(Tail(s)) ELSE s

RECURSIVE RStrip(_)
RStrip(s) ==
    IF s # <<>> /\ IsSpace(s[Len(s)]) THEN RStrip(Take(s, Len(s) - 1)) ELSE s

\* str.strip()
Strip(s) == RStrip(LStrip(s))

\* \d on a str pattern: Unicode decimal digits (those below U+0800)
IsDigit(c) == c \in (48..57) \cup (1632..1641) \cup (1776..1785) \cup (1984..1993)

\* re.match("^R(\d{4})$", line): <<TRUE, group 1>> or <<FALSE, <<>>>>.
\* Without re.MULTILINE, $ matches at the end and before a final newline.
ReMatch(line) ==
    LET n == Len(line)
        body == IF n = 6 /\ line[6] = LF THEN Take(line, 5) ELSE line
    IN IF Len(body) = 5 /\ n \in {5, 6} /\ (n = 6 => line[6] = LF)
          /\ body[1] = ByteR
          /\ \A i \in 2..5 : IsDigit(body[i])
       THEN << TRUE, SubSeq(body, 2, 5) >>
       ELSE << FALSE, <<>> >>

(* ------------------------------------------------------------------ *)
(* Inputs                                                               *)
(* ------------------------------------------------------------------ *)
StreamAlphabet == {CR, ByteR}

RECURSIVE SeqsUpTo(_, _)
SeqsUpTo(S, n) ==
    IF n = 0 THEN { <<>> }
    ELSE LET shorter == SeqsUpTo(S, n - 1) IN
         shorter \cup { Append(s, b) : s \in { t \in shorter : Len(t) = n - 1 }, b \in S }

\* b"R0123\r": one frame of the sensor's protocol
GoodFrame == << 82, 48, 49, 50, 51, 13 >>
\* b"garbage\rR0123\r": the end-to-end scenario's stream
GarbageStream == << 103, 97, 114, 98, 97, 103, 101, 13, 82, 48, 49, 50, 51, 13 >>
\* b" R0123\r": a frame with leading whitespace
PaddedFrame == << 32, 82, 48, 49, 50, 51, 13 >>
\* b"\xffR0123\r": a frame behind a byte that is not valid UTF-8
NoisyFrame == << 255, 82, 48, 49, 50, 51, 13 >>

NamedStreams == { GoodFrame, GarbageStream, PaddedFrame, NoisyFrame }

\* b"R9999\r": a frame queued in the driver before the run; the digit 9
\* occurs in no stream the sensor sends during the run
StaleFrame == << 82, 57, 57, 57, 57, 13 >>
\* "9", the byte that tells queued history from live data
StaleDigit == StaleFrame[2]

\* what the driver may hold when the UART reader flushes it
StaleInputs == { <<>>, StaleFrame }

\* what the sensor sends during one run
Streams == SeqsUpTo(StreamAlphabet, MaxStreamLen) \cup NamedStreams

\* the delimiter, a pattern byte and a whitespace byte
FeedAlphabet == { CR, ByteR, 32 }

\* the byte sequences given to the frame-assembly steps on their own
FeedData == SeqsUpTo(FeedAlphabet, MaxFeedLen) \cup NamedStreams

\* every combination of the options main reads (argparse results)
AllArgs ==
    [ serial_gpio   : {NoGpio, GpioPin},
      serial_port   : {NoPort, DevicePath},
      mqtt_broker   : {"", BrokerHost},
      mqtt_port     : {0, DefaultMqttPort},
      mqtt_user     : {NoneStr, "user"},
      mqtt_password : {NoneStr, "secret"} ]

\* the sink options left at their defaults
DefaultSink(a) ==
    /\ a.mqtt_broker = BrokerHost
    /\ a.mqtt_port = DefaultMqttPort
    /\ a.mqtt_user = NoneStr
    /\ a.mqtt_password = NoneStr

\* the command lines of a run: every source selection with the default
\* sink, and every sink selection with the GPIO source
Args ==
    { a \in AllArgs :
        DefaultSink(a) \/ (a.serial_gpio = GpioPin /\ a.serial_port = NoPort) }

\* Python truthiness of an optional string / of an int
TruthyStr(s) == s # NoneStr /\ s # ""
TruthyInt(n) == n # 0

\* get_config: the Config object, with the derived source_type
get_config(a) ==
    [ serial_gpio   |-> a.serial_gpio,
      serial_port   |-> a.serial_port,
      mqtt_broker   |-> a.mqtt_broker,
      mqtt_port     |-> a.mqtt_port,
      mqtt_topic    |-> Topic,
      mqtt_user     |-> a.mqtt_user,
      mqtt_password |-> a.mqtt_password,
      source_type   |-> IF a.serial_gpio # NoGpio THEN 1
                        ELSE IF a.serial_port # NoPort THEN 2
                        ELSE 0 ]

(* ------------------------------------------------------------------ *)
(* State                                                                *)
(* ------------------------------------------------------------------ *)
VARIABLES
    pc,           \* position of main's single thread of control
    config,       \* the Config object
    stream,       \* what the sensor sends once polling has begun
    pending,      \* bytes of stream no read has consumed yet
    clock,        \* time.time(), in ticks
    ser_open,     \* the serial device is open
    pi,           \* "None" | "connected" | "disconnected"
    bb_open,      \* the bit-bang reader is open on the pin
    buffer,       \* the frame buffer
    match,        \* <<matched, group 1>> of the last re.match
    unix_time,    \* timestamp of the last stamped iteration, -1 for None
    start_time,   \* clock value the timeout is measured from
    result,       \* what read_from_ranger returned to main, <<>> for None
    exc,          \* the exception in flight, <<>> for none
    mqtt_client,  \* "None" | "created"
    acq,          \* acquisition state: Idle, Opening, Polling, Matched, TimedOut, Failed
    opened,       \* observation: the byte source was opened successfully
    open_time,    \* observation: clock when the source was opened
    close_calls,  \* observation: calls of the source's close operation
    stop_calls,   \* observation: calls of pi.stop()
    flushed,      \* observation: the bytes discarded by the stale-data flush
    npolls,       \* observation: non-empty polls so far (saturating)
    stamp_poll,   \* observation: npolls when unix_time was captured
    tested,       \* observation: the candidate lines given to re.match, in order
    extracted,    \* observation: the bytes partition took off the buffer, in order
    since_sleep,  \* observation: polls since the last sleep (saturating)
    open_calls,   \* observation: attempts to open the byte source
    sink_ops,     \* observation: sink operations attempted, in order
    published,    \* observation: <<topic, payload>> messages handed to publish
    interrupted,  \* observation: pc at which a KeyboardInterrupt arrived, "" if none
    found,        \* observation: the Reading the loop computed, <<>> if none
    failed        \* observation: the external calls that raised, in order

vars == << pc, config, stream, pending, clock, ser_open, pi, bb_open, buffer,
           match, unix_time, start_time, result, exc, mqtt_client, acq, opened,
           open_time, close_calls, stop_calls, flushed, npolls, stamp_poll,
           tested, extracted, since_sleep, open_calls, sink_ops, published,
           interrupted, found, failed >>

envVars  == << config, stream >>
srcVars  == << ser_open, pi, bb_open >>
loopVars == << buffer, match, unix_time, start_time >>
obsVars  == << opened, open_time, close_calls, stop_calls, flushed, npolls, stamp_poll,
               tested, extracted, since_sleep, open_calls >>
sinkVars == << mqtt_client, sink_ops, published >>

NoMatch == << FALSE, <<>> >>
NoneTime == -1
NoneResult == <<>>
NoExc == <<>>

\* the clock reading at process start, in ticks
ClockAtStart == 50

Init ==
    /\ pc = "read_from_ranger"
    /\ \E a \in Args : config = get_config(a)
    /\ stream \in Streams
    /\ pending = stream
    /\ clock = ClockAtStart
    /\ ser_open = FALSE
    /\ pi = "None"
    /\ bb_open = FALSE
    /\ buffer = <<>>
    /\ match = NoMatch
    /\ unix_time = NoneTime
    /\ start_time = 0
    /\ result = NoneResult
    /\ exc = NoExc
    /\ mqtt_client = "None"
    /\ acq = "Idle"
    /\ opened = FALSE
    /\ open_time = 0
    /\ close_calls = 0
    /\ stop_calls = 0
    /\ flushed = <<>>
    /\ npolls = 0
    /\ stamp_poll = 0
    /\ tested = <<>>
    /\ extracted = <<>>
    /\ since_sleep = 0
    /\ open_calls = 0
    /\ sink_ops = <<>>
    /\ published = <<>>
    /\ interrupted = ""
    /\ found = <<>>
    /\ failed = <<>>

(* ------------------------------------------------------------------ *)
(* Helpers of the acquisition loops                                     *)
(* ------------------------------------------------------------------ *)
\* raise while `handling` is in flight: the new exception propagates and
\* keeps the one it interrupted as its __context__
Raise(name, handling) == <<name>> \o handling

\* int(dt.datetime.now(dt.timezone.utc).timestamp())
UnixTime(now) == now

\* mutant: the wall-clock reading itself is compared with the timeout
LoopCondNoStart(now, start) == now < Timeout

\* time.time() - start_time < timeout
LoopCond(now, start) == now - start < Timeout

\* by how much the clock can move during a sleep that moves it by lo..hi
\* seconds when it does not overshoot
SleepTicks(lo, hi) == lo..(hi + MaxOvershoot)

\* mutant: buffer = data instead of buffer += data
ProcessDataReplace(buf, data, oldMatch) ==
    IF Contains(data, CR)
    THEN LET parts == Partition(data)
             line  == Strip(Decode(parts[1]))
         IN [ buffer |-> parts[3], lines |-> << line >>, match |-> ReMatch(line),
              taken |-> parts[1] \o parts[2] ]
    ELSE [ buffer |-> data, lines |-> <<>>, match |-> oldMatch, taken |-> <<>> ]

\* mutant: the buffer is emptied when a line is taken off it
ProcessDataReset(buf, data, oldMatch) ==
    LET appended == buf \o data IN
    IF Contains(appended, CR)
    THEN LET parts == Partition(appended)
             line  == Strip(Decode(parts[1]))
         IN [ buffer |-> <<>>, lines |-> << line >>, match |-> ReMatch(line),
              taken |-> parts[1] \o parts[2] ]
    ELSE [ buffer |-> appended, lines |-> <<>>, match |-> oldMatch, taken |-> <<>> ]

\* buffer += data; if b'\r' in buffer: partition, decode, strip, re.match
\* (one partition per call).  lines: the candidate lines tested; taken: the
\* bytes partition removed from the buffer, the line and its delimiter.
ProcessData(buf, data, oldMatch) ==
    LET appended == buf \o data IN
    IF Contains(appended, CR)
    THEN LET parts == Partition(appended)
             line  == Strip(Decode(parts[1]))
         IN [ buffer |-> parts[3], lines |-> << line >>, match |-> ReMatch(line),
              taken |-> parts[1] \o parts[2] ]
    ELSE [ buffer |-> appended, lines |-> <<>>, match |-> oldMatch, taken |-> <<>> ]

\* {"timestamp": unix_time, "ranger_distance": match.group(1)}
Reading(t, m) == << <<"timestamp", t>>, <<"ranger_distance", m[2]>> >>

\* json.dumps of the payload dict: each value tagged with its JSON type
json_dumps(d) ==
    [ i \in 1..Len(d) |->
        << d[i][1], IF d[i][1] = "timestamp" THEN "number" ELSE "string", d[i][2] >> ]

Bump(n) == Min(n + 1, MaxPollCount)

\* a reader's local variables end with its call
DropLocals ==
    /\ buffer' = <<>>
    /\ match' = NoMatch
    /\ unix_time' = NoneTime
    /\ start_time' = 0

(* ------------------------------------------------------------------ *)
(* read_from_ranger: choice of the byte source                          *)
(* ------------------------------------------------------------------ *)
\* where read_from_ranger goes for a Config: the GPIO reader when a pin
\* is set, else the UART reader when a device path is set, else the
\* bare raise
SourceFor(c) ==
    IF c.serial_gpio # NoGpio THEN "gpio_pi"
    ELSE IF c.serial_port # NoPort THEN "uart_open"
    ELSE "raise"

ReadFromRanger ==
    /\ pc = "read_from_ranger"
    /\ LET target == SourceFor(config) IN
       IF target = "raise"
       THEN /\ pc' = "done"
            /\ exc' = Raise("RuntimeError", exc)
            /\ acq' = "Failed"
       ELSE /\ pc' = target
            /\ exc' = exc
            /\ acq' = "Opening"
    /\ UNCHANGED << envVars, pending, clock, srcVars, loopVars, result, obsVars,
                    sinkVars, interrupted, found, failed >>

(* ------------------------------------------------------------------ *)
(* read_from_ranger_uart                                                *)
(* ------------------------------------------------------------------ *)
\* ser = serial.Serial(...), except serial.SerialException: log, raise
UartOpen ==
    /\ pc = "uart_open"
    /\ \E ok \in BOOLEAN :
         IF ok
         THEN /\ ser_open' = TRUE
              /\ opened' = TRUE
              /\ open_time' = clock
              /\ pc' = "uart_settle"
              /\ UNCHANGED << exc, acq, failed >>
         ELSE /\ exc' = Raise("SerialException", exc)
              /\ acq' = "Failed"
              /\ pc' = "done"
              /\ failed' = Append(failed, "serial.Serial")
              /\ UNCHANGED << ser_open, opened, open_time >>
    /\ open_calls' = open_calls + 1
    /\ UNCHANGED << envVars, pending, clock, pi, bb_open, loopVars, result,
                    close_calls, stop_calls, flushed, npolls, stamp_poll,
                    tested, extracted, since_sleep, sinkVars, interrupted, found >>

\* buffer = b""; match = None; unix_time = None; start_time = time.time();
\* timeout = 20; time.sleep(1)           (before the try block)
UartSettle ==
    /\ pc = "uart_settle"
    /\ buffer' = <<>>
    /\ match' = NoMatch
    /\ unix_time' = NoneTime
    /\ start_time' = clock
    /\ clock' \in { clock + d : d \in SleepTicks(SettleSecs, SettleSecs) }
    /\ pc' = "uart_flush"
    /\ UNCHANGED << envVars, pending, srcVars, result, exc, acq, obsVars,
                    sinkVars, interrupted, found, failed >>

\* ser.read(n) on a driver that holds `driver`: the bytes returned and the
\* bytes the driver keeps
SerRead(driver, n) ==
    [ data |-> Take(driver, Min(n, Len(driver))),
      rest |-> Drop(driver, Min(n, Len(driver))) ]

\* mutant: the flush reads nothing
FlushNothing(driver) == 0

\* the argument of the flush's read: ser.in_waiting, all the driver holds
FlushCount(driver) == Len(driver)

\* try: ser.read(ser.in_waiting)  # flush buffer
\* The driver holds st at this moment; what the read returns is dropped,
\* what it leaves is polled before the bytes the sensor sends afterwards.
UartFlush ==
    /\ pc = "uart_flush"
    /\ \/ \E st \in StaleInputs :
            LET rd == SerRead(st, FlushCount(st)) IN
            /\ flushed' = rd.data
            /\ pending' = rd.rest \o pending
            /\ pc' = "uart_while"
            /\ acq' = "Polling"
            /\ UNCHANGED << exc, failed >>
       \/ /\ exc' = Raise("ser.read", exc)
          /\ acq' = "Failed"
          /\ pc' = "uart_close"
          /\ failed' = Append(failed, "ser.read")
          /\ UNCHANGED << flushed, pending >>
    /\ UNCHANGED << envVars, clock, srcVars, loopVars, result, opened, open_time,
                    close_calls, stop_calls, npolls, stamp_poll, tested, extracted, since_sleep,
                    open_calls, sinkVars, interrupted, found >>

\* while time.time() - start_time < timeout: ... else: log, raise
UartWhile ==
    /\ pc = "uart_while"
    /\ IF LoopCond(clock, start_time)
       THEN /\ pc' = "uart_poll"
            /\ UNCHANGED << exc, acq >>
       ELSE /\ exc' = Raise("RuntimeError", exc)
            /\ acq' = "TimedOut"
            /\ pc' = "uart_close"
    /\ UNCHANGED << envVars, pending, clock, srcVars, loopVars, result, obsVars,
                    sinkVars, interrupted, found, failed >>

\* mutant: the time is captured only while unix_time is still None
UartIterationStampFirst(k) ==
    IF k = 0
    THEN [ buffer |-> buffer, match |-> match, unix_time |-> unix_time,
           lines |-> <<>>, taken |-> <<>>, stamped |-> FALSE, broke |-> FALSE,
           next |-> "uart_sleep" ]
    ELSE LET r == ProcessData(buffer, SerRead(pending, k).data, match) IN
         [ buffer |-> r.buffer, match |-> r.match,
           unix_time |-> IF unix_time = NoneTime THEN UnixTime(clock) ELSE unix_time,
           lines |-> r.lines, taken |-> r.taken, stamped |-> unix_time = NoneTime,
           broke |-> r.match[1],
           next |-> IF r.match[1] THEN "uart_close" ELSE "uart_sleep" ]

\* what one iteration of the UART loop body does with the k bytes waiting
UartIteration(k) ==
    IF k = 0
    THEN [ buffer |-> buffer, match |-> match, unix_time |-> unix_time,
           lines |-> <<>>, taken |-> <<>>, stamped |-> FALSE, broke |-> FALSE,
           next |-> "uart_sleep" ]
    ELSE LET r == ProcessData(buffer, SerRead(pending, k).data, match) IN
         [ buffer |-> r.buffer, match |-> r.match, unix_time |-> UnixTime(clock),
           lines |-> r.lines, taken |-> r.taken, stamped |-> TRUE, broke |-> r.match[1],
           next |-> IF r.match[1] THEN "uart_close" ELSE "uart_sleep" ]

\* if ser.in_waiting > 0: data = ser.read(ser.in_waiting); stamp; append;
\* partition; match; break
UartPoll ==
    /\ pc = "uart_poll"
    /\ \/ \E k \in 0..Len(pending) :
            LET it == UartIteration(k) IN
            /\ pending' = SerRead(pending, k).rest
            /\ buffer' = it.buffer
            /\ match' = it.match
            /\ unix_time' = it.unix_time
            /\ tested' = tested \o it.lines
            /\ extracted' = extracted \o it.taken
            /\ npolls' = IF k > 0 THEN Bump(npolls) ELSE npolls
            /\ stamp_poll' = IF it.stamped THEN Bump(npolls) ELSE stamp_poll
            /\ acq' = IF it.broke THEN "Matched" ELSE acq
            /\ found' = IF it.broke THEN Reading(it.unix_time, it.match) ELSE found
            /\ pc' = it.next
            /\ UNCHANGED << exc, failed >>
       \/ /\ exc' = Raise("ser.read", exc)
          /\ acq' = "Failed"
          /\ pc' = "uart_close"
          /\ failed' = Append(failed, "ser.read")
          /\ UNCHANGED << pending, buffer, match, unix_time, tested, extracted,
                          npolls, stamp_poll, found >>
    /\ since_sleep' = Bump(since_sleep)
    /\ UNCHANGED << envVars, clock, srcVars, start_time, result, opened, open_time,
                    close_calls, stop_calls, flushed, open_calls, sinkVars,
                    interrupted >>

\* time.sleep(0.1)
UartSleep ==
    /\ pc = "uart_sleep"
    /\ clock' \in { clock + d : d \in SleepTicks(0, 1) }
    /\ pc' = "uart_while"
    /\ since_sleep' = 0
    /\ UNCHANGED << envVars, pending, srcVars, loopVars, result, exc, acq, opened,
                    open_time, close_calls, stop_calls, flushed, npolls, stamp_poll,
                    tested, extracted, open_calls, sinkVars, interrupted, found,
                    failed >>

\* mutant: an error of ser.close() is swallowed
UartFinallySwallow(closeOk, e) ==
    [ closes |-> 1, exc |-> e, pc |-> IF e = NoExc THEN "uart_return" ELSE "done" ]

\* mutant: ser.close() after the try statement instead of in a finally
\* block, so that it is skipped when an exception is in flight
UartCloseAfterTry(closeOk, e) ==
    IF e # NoExc
    THEN [ closes |-> 0, exc |-> e, pc |-> "done" ]
    ELSE IF closeOk
    THEN [ closes |-> 1, exc |-> e, pc |-> "uart_return" ]
    ELSE [ closes |-> 1, exc |-> Raise("ser.close", e), pc |-> "done" ]

\* finally: ser.close(), entered with e in flight; closeOk is the outcome
\* of the call.  Gives the calls made, the exception in flight afterwards
\* and where control goes.
UartFinally(closeOk, e) ==
    IF closeOk
    THEN [ closes |-> 1, exc |-> e, pc |-> IF e = NoExc THEN "uart_return" ELSE "done" ]
    ELSE [ closes |-> 1, exc |-> Raise("ser.close", e), pc |-> "done" ]

\* finally: ser.close()
UartClose ==
    /\ pc = "uart_close"
    /\ \E closeOk \in BOOLEAN :
         LET after == UartFinally(closeOk, exc) IN
         /\ close_calls' = close_calls + after.closes
         /\ ser_open' = IF after.closes > 0 /\ closeOk THEN FALSE ELSE ser_open
         /\ failed' = IF after.closes > 0 /\ ~closeOk
                       THEN Append(failed, "ser.close") ELSE failed
         /\ exc' = after.exc
         /\ pc' = after.pc
         /\ acq' = IF closeOk THEN acq ELSE "Failed"
         /\ IF after.pc = "done" THEN DropLocals ELSE UNCHANGED loopVars
    /\ UNCHANGED << envVars, pending, clock, pi, bb_open, result, opened,
                    open_time, stop_calls, flushed, npolls, stamp_poll, tested, extracted,
                    since_sleep, open_calls, sinkVars, interrupted, found >>

\* if match and match.groups(): return {...} else: log, raise
UartReturn ==
    /\ pc = "uart_return"
    /\ IF match[1] /\ match[2] # <<>>
       THEN /\ result' = Reading(unix_time, match)
            /\ pc' = "main_if"
            /\ UNCHANGED << exc, acq >>
       ELSE /\ exc' = Raise("RuntimeError", exc)
            /\ acq' = "Failed"
            /\ pc' = "done"
            /\ UNCHANGED result
    /\ DropLocals
    /\ UNCHANGED << envVars, pending, clock, srcVars, obsVars, sinkVars,
                    interrupted, found, failed >>

(* ------------------------------------------------------------------ *)
(* read_from_ranger_gpio                                                *)
(* ------------------------------------------------------------------ *)
\* pi = pigpio.pi(); if not pi.connected: raise RuntimeError(...)
GpioPi ==
    /\ pc = "gpio_pi"
    /\ \E connected \in BOOLEAN :
         IF connected
         THEN /\ pi' = "connected"
              /\ pc' = "gpio_open"
              /\ UNCHANGED << exc, acq >>
         ELSE /\ pi' = "disconnected"
              /\ exc' = Raise("RuntimeError", exc)
              /\ acq' = "Failed"
              /\ pc' = "gpio_except"
    /\ UNCHANGED << envVars, pending, clock, ser_open, bb_open, loopVars, result,
                    obsVars, sinkVars, interrupted, found, failed >>

\* pi.bb_serial_read_open(config.serial_gpio, config.baud_rate, config.data_bits)
GpioOpen ==
    /\ pc = "gpio_open"
    /\ \E ok \in BOOLEAN :
         IF ok
         THEN /\ bb_open' = TRUE
              /\ opened' = TRUE
              /\ open_time' = clock
              /\ pc' = "gpio_invert"
              /\ UNCHANGED << exc, acq, failed >>
         ELSE /\ exc' = Raise("bb_serial_read_open", exc)
              /\ acq' = "Failed"
              /\ pc' = "gpio_except"
              /\ failed' = Append(failed, "bb_serial_read_open")
              /\ UNCHANGED << bb_open, opened, open_time >>
    /\ open_calls' = open_calls + 1
    /\ UNCHANGED << envVars, pending, clock, ser_open, pi, loopVars, result,
                    close_calls, stop_calls, flushed, npolls, stamp_poll,
                    tested, extracted, since_sleep, sinkVars, interrupted, found >>

\* pi.bb_serial_invert(config.serial_gpio, 1); buffer = b""; unix_time = 0
GpioInvert ==
    /\ pc = "gpio_invert"
    /\ \E ok \in BOOLEAN :
         IF ok
         THEN /\ buffer' = <<>>
              /\ unix_time' = 0
              /\ acq' = "Polling"
              /\ pc' = "gpio_read"
              /\ UNCHANGED << exc, failed >>
         ELSE /\ exc' = Raise("bb_serial_invert", exc)
              /\ acq' = "Failed"
              /\ pc' = "gpio_except"
              /\ failed' = Append(failed, "bb_serial_invert")
              /\ UNCHANGED << buffer, unix_time >>
    /\ UNCHANGED << envVars, pending, clock, srcVars, match, start_time, result,
                    obsVars, sinkVars, interrupted, found >>

\* mutant: the loop body is not guarded by count > 0
GpioIterationNoGuard(k) ==
    LET r == ProcessData(buffer, Take(pending, k), NoMatch) IN
    [ buffer |-> r.buffer, match |-> r.match, unix_time |-> UnixTime(clock),
      lines |-> r.lines, taken |-> r.taken, returned |-> r.match[1] ]

\* what one iteration of the GPIO loop body does with count = k bytes
GpioIteration(k) ==
    IF k = 0
    THEN [ buffer |-> buffer, match |-> match, unix_time |-> UnixTime(clock),
           lines |-> <<>>, taken |-> <<>>, returned |-> FALSE ]
    ELSE LET r == ProcessData(buffer, Take(pending, k), NoMatch) IN
         [ buffer |-> r.buffer, match |-> r.match, unix_time |-> UnixTime(clock),
           lines |-> r.lines, taken |-> r.taken, returned |-> r.match[1] ]

\* mutant: the loop ends when a poll finds nothing left to read
GpioLoopUntilEmpty == pending' # <<>>

\* the condition of the GPIO loop: while True
GpioLoopCond == TRUE

\* where control goes after an iteration of the GPIO loop: out of the
\* function by the return statement, to the next iteration, or past the
\* loop to the end of the try block
GpioAfterIteration(returned) ==
    IF returned THEN "gpio_finally"
    ELSE IF GpioLoopCond THEN "gpio_read"
    ELSE "gpio_finally"

\* while True: count, data = pi.bb_serial_read(pin); stamp; if count > 0:
\* append; partition; match; return {...}        (no sleep in this loop)
GpioRead ==
    /\ pc = "gpio_read"
    /\ \/ \E k \in 0..Len(pending) :
            LET it == GpioIteration(k) IN
            /\ pending' = Drop(pending, k)
            /\ buffer' = it.buffer
            /\ match' = it.match
            /\ unix_time' = it.unix_time
            /\ tested' = tested \o it.lines
            /\ extracted' = extracted \o it.taken
            /\ npolls' = IF k > 0 THEN Bump(npolls) ELSE npolls
            /\ stamp_poll' = IF k > 0 THEN Bump(npolls) ELSE npolls
            /\ acq' = IF it.returned THEN "Matched" ELSE acq
            /\ found' = IF it.returned THEN Reading(it.unix_time, it.match) ELSE found
            /\ pc' = GpioAfterIteration(it.returned)
            /\ UNCHANGED << exc, failed >>
       \/ /\ exc' = Raise("bb_serial_read", exc)
          /\ acq' = "Failed"
          /\ pc' = "gpio_except"
          /\ failed' = Append(failed, "bb_serial_read")
          /\ UNCHANGED << pending, buffer, match, unix_time, tested, extracted,
                          npolls, stamp_poll, found >>
    /\ since_sleep' = Bump(since_sleep)
    /\ UNCHANGED << envVars, clock, srcVars, start_time, result, opened, open_time,
                    close_calls, stop_calls, flushed, open_calls, sinkVars,
                    interrupted >>

\* except Exception as e: log, raise
GpioExcept ==
    /\ pc = "gpio_except"
    /\ pc' = "gpio_finally"
    /\ UNCHANGED << envVars, pending, clock, srcVars, loopVars, result, exc, acq,
                    obsVars, sinkVars, interrupted, found, failed >>

\* mutant: the cleanup handler logs the error and does not re-raise it
GpioCleanupSwallow(p, closeOk, stopOk, e) ==
    IF p = "None"
    THEN [ closes |-> 0, stops |-> 0, exc |-> e ]
    ELSE IF ~closeOk
    THEN [ closes |-> 1, stops |-> 0, exc |-> e ]
    ELSE [ closes |-> 1, stops |-> 1, exc |-> e ]

\* finally: if pi: try: pi.bb_serial_read_close(pin); pi.stop()
\*                  except Exception as e: log, raise
\* p: the pi variable; closeOk, stopOk: outcomes of the two calls; e: the
\* exception in flight.  Gives the calls made and the exception afterwards.
GpioCleanup(p, closeOk, stopOk, e) ==
    IF p = "None"
    THEN [ closes |-> 0, stops |-> 0, exc |-> e ]
    ELSE IF ~closeOk
    THEN [ closes |-> 1, stops |-> 0, exc |-> Raise("bb_serial_read_close", e) ]
    ELSE IF ~stopOk
    THEN [ closes |-> 1, stops |-> 1, exc |-> Raise("pi.stop", e) ]
    ELSE [ closes |-> 1, stops |-> 1, exc |-> e ]

\* The value of the return statement inside the try block reaches the
\* caller only when the finally block ends without raising; nothing changes
\* unix_time or match in between, so the value is built here.  Without a
\* return statement the function would return None.
GpioFinally ==
    /\ pc = "gpio_finally"
    /\ \E closeOk \in BOOLEAN, stopOk \in BOOLEAN :
         LET c == GpioCleanup(pi, closeOk, stopOk, exc) IN
         /\ close_calls' = close_calls + c.closes
         /\ stop_calls' = stop_calls + c.stops
         /\ bb_open' = IF c.closes > 0 /\ closeOk THEN FALSE ELSE bb_open
         /\ failed' = IF c.closes > 0 /\ ~closeOk
                       THEN Append(failed, "bb_serial_read_close")
                       ELSE IF c.stops > 0 /\ ~stopOk
                       THEN Append(failed, "pi.stop")
                       ELSE failed
         /\ exc' = c.exc
         /\ IF c.exc = NoExc
            THEN /\ result' = IF match[1] THEN Reading(unix_time, match) ELSE NoneResult
                 /\ pc' = "main_if"
                 /\ acq' = acq
            ELSE /\ result' = result
                 /\ pc' = "done"
                 /\ acq' = "Failed"
    /\ DropLocals
    /\ UNCHANGED << envVars, pending, clock, ser_open, pi, opened,
                    open_time, flushed, npolls, stamp_poll, tested, extracted, since_sleep,
                    open_calls, sinkVars, interrupted, found >>

(* ------------------------------------------------------------------ *)
(* main and send_to_mqtt                                                *)
(* ------------------------------------------------------------------ *)
\* result and config.mqtt_broker and config.mqtt_port
SinkWanted(r, c) ==
    r # NoneResult /\ TruthyStr(c.mqtt_broker) /\ TruthyInt(c.mqtt_port)

\* if result and config.mqtt_broker and config.mqtt_port: send_to_mqtt(...)
\* else: logger.info(...)
MainIf ==
    /\ pc = "main_if"
    /\ pc' = IF SinkWanted(result, config) THEN "mqtt_client" ELSE "done"
    /\ UNCHANGED << envVars, pending, clock, srcVars, loopVars, result, exc, acq,
                    obsVars, sinkVars, interrupted, found, failed >>

\* mqtt_client = mqtt.Client()
SendClient ==
    /\ pc = "mqtt_client"
    /\ mqtt_client' = "created"
    /\ pc' = "mqtt_auth"
    /\ UNCHANGED << envVars, pending, clock, srcVars, loopVars, result, exc, acq,
                    obsVars, sink_ops, published, interrupted, found, failed >>

\* mutant: one of the two is enough
UseCredentialsEither(c) == TruthyStr(c.mqtt_user) \/ TruthyStr(c.mqtt_password)

\* config.mqtt_user and config.mqtt_password
UseCredentials(c) == TruthyStr(c.mqtt_user) /\ TruthyStr(c.mqtt_password)

\* mutant: a statement that raised is followed by another connect
SendRetryConnect == "mqtt_connect"

\* where a statement of send_to_mqtt's try block that raised continues:
\* except Exception as e: log, raise
SendRaiseTarget == "mqtt_except"

\* mutant: no finally block, the re-raise leaves send_to_mqtt
SendExceptNoFinally == "done"

\* where the re-raise of the except clause continues: the finally block
SendExceptTarget == "mqtt_disconnect"

\* one call on the client inside the try block: it is attempted, and it
\* returns (control goes to `next`) or raises
SendCall(op, next) ==
    /\ sink_ops' = Append(sink_ops, op)
    /\ \E ok \in BOOLEAN :
         IF ok
         THEN /\ pc' = next
              /\ UNCHANGED << exc, failed >>
         ELSE /\ pc' = SendRaiseTarget
              /\ exc' = Raise(op, exc)
              /\ failed' = Append(failed, op)

\* if config.mqtt_user and config.mqtt_password: mqtt_client.username_pw_set(...)
SendAuth ==
    /\ pc = "mqtt_auth"
    /\ IF UseCredentials(config)
       THEN SendCall("username_pw_set", "mqtt_connect")
       ELSE /\ pc' = "mqtt_connect"
            /\ UNCHANGED << sink_ops, exc, failed >>
    /\ UNCHANGED << envVars, pending, clock, srcVars, loopVars, result, acq,
                    obsVars, mqtt_client, published, interrupted, found >>

\* mqtt_client.connect(config.mqtt_broker, config.mqtt_port, keepalive=60)
SendConnect ==
    /\ pc = "mqtt_connect"
    /\ SendCall("connect", "mqtt_publish")
    /\ UNCHANGED << envVars, pending, clock, srcVars, loopVars, result, acq,
                    obsVars, mqtt_client, published, interrupted, found >>

\* payload_json = json.dumps(payload_dict);
\* mqtt_client.publish(config.mqtt_topic, payload_json); logger.info(...)
SendPublish ==
    /\ pc = "mqtt_publish"
    /\ published' = Append(published, << config.mqtt_topic, json_dumps(result) >>)
    /\ SendCall("publish", "mqtt_disconnect")
    /\ UNCHANGED << envVars, pending, clock, srcVars, loopVars, result, acq,
                    obsVars, mqtt_client, interrupted, found >>

\* except Exception as e: log, raise
SendExcept ==
    /\ pc = "mqtt_except"
    /\ pc' = SendExceptTarget
    /\ UNCHANGED << envVars, pending, clock, srcVars, loopVars, result, exc, acq,
                    obsVars, sinkVars, interrupted, found, failed >>

\* mutant: the disconnect error replaces the exception in flight and
\* keeps no reference to it
AfterDisconnectMasking(ok, e) == IF ok THEN e ELSE <<"disconnect">>

\* the exception in flight after the finally block of send_to_mqtt ran
\* mqtt_client.disconnect() with outcome ok while e was in flight
AfterDisconnect(ok, e) == IF ok THEN e ELSE Raise("disconnect", e)

\* finally: try: mqtt_client.disconnect() except Exception as e: log, raise
SendDisconnect ==
    /\ pc = "mqtt_disconnect"
    /\ sink_ops' = Append(sink_ops, "disconnect")
    /\ \E ok \in BOOLEAN :
         /\ exc' = AfterDisconnect(ok, exc)
         /\ failed' = IF ok THEN failed ELSE Append(failed, "disconnect")
    /\ pc' = "done"
    /\ UNCHANGED << envVars, pending, clock, srcVars, loopVars, result, acq,
                    obsVars, mqtt_client, published, interrupted, found >>

\* What the caller of main gets: main has no return statement and no try
\* statement, so it returns None or lets the exception in flight through.
MainOutcome == [ returned |-> NoneResult, raised |-> exc ]

(* ------------------------------------------------------------------ *)
(* KeyboardInterrupt                                                    *)
(* ------------------------------------------------------------------ *)
\* Where a KeyboardInterrupt raised at position p continues: the finally
\* block of the enclosing try statement, or out of main when no try
\* statement encloses p.  (except Exception does not catch it.)
InterruptTarget(p) ==
    CASE p \in {"uart_flush", "uart_while", "uart_poll", "uart_sleep"} -> "uart_close"
      [] p \in {"gpio_pi", "gpio_open", "gpio_invert", "gpio_read"} -> "gpio_finally"
      [] p \in {"mqtt_auth", "mqtt_connect", "mqtt_publish"} -> "mqtt_disconnect"
      [] OTHER -> "done"

\* positions at which the arrival of the signal is modelled: everywhere
\* but inside the except and finally handlers themselves
Interruptible ==
    { "read_from_ranger", "uart_open", "uart_settle", "uart_flush", "uart_while",
      "uart_poll", "uart_sleep", "uart_return", "gpio_pi", "gpio_open",
      "gpio_invert", "gpio_read", "main_if", "mqtt_client", "mqtt_auth",
      "mqtt_connect", "mqtt_publish" }

Interrupt ==
    /\ pc \in Interruptible
    /\ interrupted = ""
    /\ interrupted' = pc
    /\ exc' = Raise("KeyboardInterrupt", exc)
    /\ pc' = InterruptTarget(pc)
    /\ acq' = IF acq = "Idle" \/ result # NoneResult THEN acq ELSE "Failed"
    /\ IF InterruptTarget(pc) = "done" THEN DropLocals ELSE UNCHANGED loopVars
    /\ UNCHANGED << envVars, pending, clock, srcVars, result, obsVars, sinkVars,
                    found, failed >>

(* ------------------------------------------------------------------ *)
(* Specification                                                        *)
(* ------------------------------------------------------------------ *)
Next ==
    \/ ReadFromRanger
    \/ UartOpen
    \/ UartSettle
    \/ UartFlush
    \/ UartWhile
    \/ UartPoll
    \/ UartSleep
    \/ UartClose
    \/ UartReturn
    \/ GpioPi
    \/ GpioOpen
    \/ GpioInvert
    \/ GpioRead
    \/ GpioExcept
    \/ GpioFinally
    \/ MainIf
    \/ SendClient
    \/ SendAuth
    \/ SendConnect
    \/ SendPublish
    \/ SendExcept
    \/ SendDisconnect
    \/ Interrupt

Spec == Init /\ [][Next]_vars

(* ------------------------------------------------------------------ *)
(* The frame-assembly steps on their own                                *)
(* ------------------------------------------------------------------ *)
\* The statements of one loop iteration that follow a non-empty poll
\* (buffer += data ... re.match), applied to every way of cutting a byte
\* sequence into polls, starting from the empty buffer of the readers.
InitFeed ==
    /\ pc = "feed"
    /\ \E a \in Args :
         /\ DefaultSink(a) /\ a.serial_gpio = NoGpio /\ a.serial_port = DevicePath
         /\ config = get_config(a)
    /\ stream \in FeedData
    /\ pending = stream
    /\ clock = ClockAtStart
    /\ ser_open = FALSE
    /\ pi = "None"
    /\ bb_open = FALSE
    /\ buffer = <<>>
    /\ match = NoMatch
    /\ unix_time = NoneTime
    /\ start_time = 0
    /\ result = NoneResult
    /\ exc = NoExc
    /\ mqtt_client = "None"
    /\ acq = "Polling"
    /\ opened = FALSE
    /\ open_time = 0
    /\ close_calls = 0
    /\ stop_calls = 0
    /\ flushed = <<>>
    /\ npolls = 0
    /\ stamp_poll = 0
    /\ tested = <<>>
    /\ extracted = <<>>
    /\ since_sleep = 0
    /\ open_calls = 0
    /\ sink_ops = <<>>
    /\ published = <<>>
    /\ interrupted = ""
    /\ found = <<>>
    /\ failed = <<>>

\* buffer += data; if b'\r' in buffer: ...; match = re.match(...)
\* with data the next k > 0 bytes
Feed ==
    /\ pc = "feed"
    /\ \E k \in 1..Len(pending) :
         LET r == ProcessData(buffer, Take(pending, k), match) IN
         /\ pending' = Drop(pending, k)
         /\ buffer' = r.buffer
         /\ match' = r.match
         /\ tested' = tested \o r.lines
         /\ extracted' = extracted \o r.taken
         /\ npolls' = Bump(npolls)
    /\ UNCHANGED << pc, envVars, clock, srcVars, unix_time, start_time, result, exc,
                    acq, opened, open_time, close_calls, stop_calls, flushed,
                    stamp_poll, since_sleep, open_calls, sinkVars, interrupted,
                    found, failed >>

NextFeed == Feed

SpecFeed == InitFeed /\ [][NextFeed]_vars

(* ------------------------------------------------------------------ *)
(* Properties                                                           *)
(* ------------------------------------------------------------------ *)
InSeq(q, x) == \E i \in 1..Len(q) : q[i] = x

Count(q, x) == Cardinality({ i \in 1..Len(q) : q[i] = x })

UartPositions ==
    { "uart_open", "uart_settle", "uart_flush", "uart_while", "uart_poll",
      "uart_sleep", "uart_close", "uart_return" }

GpioPositions ==
    { "gpio_pi", "gpio_open", "gpio_invert", "gpio_read", "gpio_except",
      "gpio_finally" }

ReaderPositions == UartPositions \cup GpioPositions

\* the source's close operation raised
CloseFailed == InSeq(failed, "ser.close") \/ InSeq(failed, "bb_serial_read_close")

\* the steps of send_to_mqtt's try block
StageOps == { "username_pw_set", "connect", "publish" }

\* C1: once the byte source has been opened, and no interrupt arrives in
\* the reader, the source's close operation is never called twice, and it
\* has been called exactly once when the reader has returned or raised
\* (after a match, a timeout or a poll error alike).
C1_CloseExactlyOnce ==
    (opened /\ interrupted \notin ReaderPositions)
        => IF pc \in ReaderPositions THEN close_calls <= 1 ELSE close_calls = 1

\* a run whose poll raised, ended with the source closed once
C1_Witness ==
    /\ opened
    /\ pc = "done"
    /\ failed = << "ser.read" >>
    /\ close_calls = 1

\* C2: when a KeyboardInterrupt arrived after the byte source was opened,
\* the source's close operation has run by the time the run has ended.
C2_CloseRunsAfterInterrupt ==
    (pc = "done" /\ opened /\ interrupted # "") => close_calls >= 1

\* C3: when the close operation raises after the loop found a matching
\* line, read_from_ranger returns no Reading and send_to_mqtt is never
\* called.
C3_CloseErrorFailsRun ==
    (found # <<>> /\ CloseFailed)
        => /\ result = NoneResult
           /\ mqtt_client = "None"
           /\ sink_ops = <<>>
           /\ exc # NoExc

\* a UART run that matched and whose ser.close() raised
C3_Witness ==
    /\ found # <<>>
    /\ failed = << "ser.close" >>
    /\ exc = << "ser.close" >>
    /\ pc = "done"

\* C4: a UART run whose source was opened and in which no line matched, no
\* poll raised and no interrupt arrived ends by the timeout's raise, not
\* before Timeout seconds have passed since the source was opened, with no
\* Reading and with close called exactly once.
C4_TimeoutBoundary ==
    ( /\ SourceFor(config) = "uart_open"
      /\ opened
      /\ pc = "done"
      /\ found = <<>>
      /\ ~InSeq(failed, "ser.read")
      /\ interrupted = "" )
        => /\ InSeq(exc, "RuntimeError")
           /\ clock - open_time >= Timeout
           /\ result = NoneResult
           /\ close_calls = 1

\* a run that polled all of a non-empty stream, matched nothing and timed out
C4_Witness ==
    /\ acq = "TimedOut"
    /\ pc = "done"
    /\ stream # <<>>
    /\ pending = <<>>
    /\ clock - open_time >= Timeout
    /\ close_calls = 1

\* both a GPIO pin and a device path are set, or neither is
Ambiguous(c) == (c.serial_gpio # NoGpio) = (c.serial_port # NoPort)

\* C5: with an ambiguous source configuration no byte source is ever
\* opened (no pigpio connection, no serial device), and the run ends with
\* an error.
C5_AmbiguousSourceFails ==
    Ambiguous(config)
        => /\ ~opened
           /\ pi = "None"
           /\ pc \in { "read_from_ranger", "done" }
           /\ (pc = "done" => exc # NoExc)

\* the acquisition ended without a Reading
AcquisitionFailed == acq \in { "Failed", "TimedOut" } \/ CloseFailed

\* C6: in a run whose acquisition ended without a Reading, no sink
\* operation (credentials, connect, publish, disconnect) is performed and
\* no client is created.
C6_NoSinkAfterFailure ==
    AcquisitionFailed => (sink_ops = <<>> /\ mqtt_client = "None" /\ published = <<>>)

\* a GPIO run whose bb_serial_read_open raised
C6_Witness ==
    /\ pc = "done"
    /\ acq = "Failed"
    /\ failed = << "bb_serial_read_open" >>
    /\ sink_ops = <<>>

\* C7: a call of send_to_mqtt never attempts disconnect twice, has
\* attempted it exactly once, as its last sink operation, when it has
\* returned or raised, and never attempts connect after publish or
\* disconnect.
C7_DisconnectExactlyOnce ==
    /\ Count(sink_ops, "disconnect") <= 1
    /\ (pc = "done" /\ mqtt_client = "created")
          => /\ Count(sink_ops, "disconnect") = 1
             /\ sink_ops[Len(sink_ops)] = "disconnect"
    /\ \A i, j \in 1..Len(sink_ops) :
          (i < j /\ sink_ops[i] \in { "publish", "disconnect" })
              => sink_ops[j] # "connect"

\* a call whose connect raised: disconnect was still attempted
C7_Witness ==
    /\ pc = "done"
    /\ failed = << "connect" >>
    /\ sink_ops = << "connect", "disconnect" >>

\* C8: when a step of the try block and disconnect both raised, the
\* exception that leaves send_to_mqtt is the disconnect error and carries
\* the step's error as its context.
C8_BothFailuresVisible ==
    ( /\ pc = "done"
      /\ InSeq(failed, "disconnect")
      /\ \E op \in StageOps : InSeq(failed, op) )
        => /\ Len(exc) = 2
           /\ exc[1] = "disconnect"
           /\ exc[2] \in StageOps
           /\ InSeq(failed, exc[2])

\* publish and disconnect both raised
C8_Witness ==
    /\ pc = "done"
    /\ failed = << "publish", "disconnect" >>
    /\ exc = << "disconnect", "publish" >>

\* C9: when the UART reader has polled b"garbage\rR0123\r" in two
\* non-empty polls, whatever the split, it has matched in the second
\* poll's iteration: the Reading's value is "0123" and its timestamp was
\* captured in that iteration.
C9_EndToEnd ==
    ( /\ SourceFor(config) = "uart_open"
      /\ stream = GarbageStream
      /\ npolls = 2
      /\ pending = <<>> )
        => /\ found # <<>>
           /\ found[2][2] = << 48, 49, 50, 51 >>
           /\ stamp_poll = 2

\* C10: after an iteration that did not match, the frame buffer holds no
\* carriage return.
C10_NoDelimiterLeft ==
    pc \in { "uart_sleep", "gpio_read" } => ~Contains(buffer, CR)

\* the bytes of pending that a step took
Polled == Take(pending, Len(pending) - Len(pending'))

\* C11: when a byte sequence with exactly one carriage return has been fed,
\* in whatever pieces, to an empty frame buffer, exactly one candidate line
\* was tested, the decoded and stripped bytes before the carriage return,
\* and the frame buffer is exactly the bytes after it.
C11_OneDelimiterOneLine ==
    (pc = "feed" /\ Count(stream, CR) = 1 /\ pending = <<>>)
        => LET i == CHOOSE j \in 1..Len(stream) : stream[j] = CR IN
           /\ tested = << Strip(Decode(SubSeq(stream, 1, i - 1))) >>
           /\ buffer = SubSeq(stream, i + 1, Len(stream))

\* b"R\rR" fed in two pieces
C11_Witness ==
    /\ pc = "feed"
    /\ stream = << ByteR, CR, ByteR >>
    /\ pending = <<>>
    /\ npolls = 2
    /\ tested = << << ByteR >> >>
    /\ buffer = << ByteR >>

\* C12: a step that appends polled bytes to a frame buffer, with no
\* carriage return in the result, grows the buffer by exactly the number
\* of polled bytes and tests no candidate line.
C12_NoDelimiterGrows ==
    [][ (pc = "feed" /\ ~Contains(buffer \o Polled, CR))
          => /\ Len(buffer') = Len(buffer) + Len(Polled)
             /\ tested' = tested ]_vars

\* two pieces without a carriage return were appended to the buffer
C12_Witness ==
    /\ pc = "feed"
    /\ npolls = 2
    /\ tested = <<>>
    /\ buffer = << ByteR, 32, ByteR >>
    /\ pending = <<>>

\* both a username and a password are configured
BothConfigured == TruthyStr(config.mqtt_user) /\ TruthyStr(config.mqtt_password)

\* C13: username_pw_set is attempted only when both a username and a
\* password are configured; control reaches connect after exactly that call
\* when both are configured and after no sink operation otherwise; and an
\* attempted connect is the second sink operation, preceded by
\* username_pw_set, when both are configured and the first one otherwise.
C13_CredentialsIffBoth ==
    /\ InSeq(sink_ops, "username_pw_set") => BothConfigured
    /\ pc = "mqtt_connect"
          => sink_ops = IF BothConfigured THEN << "username_pw_set" >> ELSE <<>>
    /\ \A j \in 1..Len(sink_ops) :
          sink_ops[j] = "connect"
              => IF BothConfigured
                 THEN j = 2 /\ sink_ops[1] = "username_pw_set"
                 ELSE j = 1

\* only a username is configured and connect was attempted first
C13_Witness ==
    /\ TruthyStr(config.mqtt_user)
    /\ ~TruthyStr(config.mqtt_password)
    /\ Len(sink_ops) >= 2
    /\ sink_ops[1] = "connect"
    /\ sink_ops[2] = "publish"

\* C14: in one run the byte source's open is attempted at most once, and
\* the sink's connect and publish are attempted at most once each, whatever
\* failed or timed out before.
C14_NoRetry ==
    /\ open_calls <= 1
    /\ Count(sink_ops, "connect") <= 1
    /\ Count(sink_ops, "publish") <= 1

\* a run whose connect raised has ended with one open and one connect
C14_Witness ==
    /\ pc = "done"
    /\ failed = << "connect" >>
    /\ open_calls = 1
    /\ Count(sink_ops, "connect") = 1
    /\ Count(sink_ops, "publish") = 0

\* the operations of the publish stage
PublishStageOps == { "connect", "publish", "disconnect" }

\* C15: when read_from_ranger returned a Reading and connect, publish or
\* disconnect raised, what main hands to its caller holds the sink's error
\* and the Reading.
C15_ReadingNotLost ==
    ( /\ pc = "done"
      /\ result # NoneResult
      /\ \E op \in PublishStageOps : InSeq(failed, op) )
        => /\ MainOutcome.raised # NoExc
           /\ MainOutcome.returned = result

\* the names of a published payload's fields
FieldNames(payload) == { payload[j][1] : j \in 1..Len(payload) }

\* C16: every message handed to publish goes to the configured topic, and
\* its payload has exactly two fields, "timestamp" and "value", that hold
\* the timestamp and the captured group of the Reading the loop computed.
C16_PayloadFields ==
    \A i \in 1..Len(published) :
        LET payload == published[i][2] IN
        /\ published[i][1] = config.mqtt_topic
        /\ Len(payload) = 2
        /\ FieldNames(payload) = { "timestamp", "value" }
        /\ \A j \in 1..Len(payload) :
              /\ payload[j][1] = "timestamp" => payload[j][3] = found[1][2]
              /\ payload[j][1] = "value" => payload[j][3] = found[2][2]

\* C17: the timestamp of the Reading a loop computed is the time of the
\* iteration that tested the matching line (no sleep, hence no change of
\* the clock, follows a match), captured at that iteration's poll and at no
\* other one; and a Reading that read_from_ranger returned is that Reading.
C17_TimestampOfMatchingIteration ==
    /\ found # <<>>
          => /\ found[1][2] = UnixTime(clock)
             /\ stamp_poll = npolls
             /\ tested # <<>>
             /\ ReMatch(tested[Len(tested)]) = << TRUE, found[2][2] >>
    /\ result # NoneResult => result = found

\* a UART run that matched in its second non-empty poll, after a sleep
\* that moved the clock
C17_Witness ==
    /\ SourceFor(config) = "uart_open"
    /\ result # NoneResult
    /\ npolls = 2
    /\ stamp_poll = 2
    /\ result[1][2] = clock
    /\ clock > open_time + SettleSecs + MaxOvershoot

\* C18: neither loop polls the byte source twice without a sleep between
\* the two polls.
C18_SleepBetweenPolls == since_sleep <= 1

\* the attempt to open the byte source failed: the pigpio daemon is not
\* connected, or the open call raised
OpenFailure ==
    IF pi = "disconnected" THEN "RuntimeError"
    ELSE IF InSeq(failed, "bb_serial_read_open") THEN "bb_serial_read_open"
    ELSE IF InSeq(failed, "serial.Serial") THEN "SerialException"
    ELSE ""

\* C19: the source's close operation is not called unless the source was
\* opened successfully, and a run whose open failed ends with the open
\* failure as the error that reaches the caller.
C19_CloseOnlyIfOpened ==
    /\ ~opened => close_calls = 0
    /\ (pc = "done" /\ OpenFailure # "" /\ interrupted = "")
          => (exc # NoExc /\ exc[1] = OpenFailure)

\* s holds a byte that only the driver's queued history contains
HasStale(s) == Contains(s, StaleDigit)

\* C20: no byte that the driver held when the UART reader flushed it is in
\* the frame buffer, in a candidate line or in the value of a Reading.
C20_FlushedNeverFramed ==
    /\ ~HasStale(buffer)
    /\ \A i \in 1..Len(tested) : ~HasStale(tested[i])
    /\ found # <<>> => ~HasStale(found[2][2])
    /\ result # NoneResult => ~HasStale(result[2][2])

\* the driver held a whole frame at the flush, and the run returned the
\* Reading of a frame sent afterwards
C20_Witness ==
    /\ flushed = StaleFrame
    /\ result # NoneResult
    /\ tested # <<>>
    /\ result[2][2] = << 48, 49, 50, 51 >>

\* the GPIO loop was entered, and since then no poll raised, no interrupt
\* arrived and no line matched
GpioLoopUndisturbed ==
    /\ SourceFor(config) = "gpio_pi"
    /\ opened
    /\ pc # "gpio_invert"
    /\ ~InSeq(failed, "bb_serial_invert")
    /\ ~InSeq(failed, "bb_serial_read")
    /\ interrupted = ""
    /\ found = <<>>

\* C21: as long as no line matched, no poll raised and no interrupt
\* arrived, the GPIO reader is in its loop, where a further poll is always
\* possible: it has not returned, failed or closed the source.
C21_GpioPollsForever ==
    GpioLoopUndisturbed
        => /\ pc = "gpio_read"
           /\ ENABLED GpioRead
           /\ acq = "Polling"
           /\ close_calls = 0
           /\ result = NoneResult

\* the loop goes on polling after the sensor's last byte, unmatched
C21_Witness ==
    /\ GpioLoopUndisturbed
    /\ stream # <<>>
    /\ pending = <<>>
    /\ since_sleep = MaxPollCount

\* the bytes the polls have returned so far; the flush leaves nothing of
\* what the driver held before
PolledSoFar == Take(stream, Len(stream) - Len(pending))

\* C22: while a reader runs, the extracted lines, each with its carriage
\* return, in extraction order and followed by the frame buffer, are the
\* bytes the polls have returned so far, and one line was tested for each
\* extracted carriage return.
C22_BytesConserved ==
    pc \in ReaderPositions
        => /\ extracted \o buffer = PolledSoFar
           /\ Count(extracted, CR) = Len(tested)
           /\ (extracted # <<>> => extracted[Len(extracted)] = CR)

\* b"garbage\r" was extracted in the first poll, and the second poll's
\* bytes extend what the first one left in the buffer
C22_Witness ==
    /\ pc = "uart_sleep"
    /\ stream = GarbageStream
    /\ npolls = 2
    /\ extracted = Take(GarbageStream, 8)
    /\ Len(buffer) = 3
    /\ Len(pending) = 3

\* the complete lines of s: its segments that end with a carriage return
RECURSIVE CompleteLines(_)
CompleteLines(s) ==
    LET i == Find(s, CR) IN
    IF i = 0 THEN <<>>
    ELSE << Take(s, i - 1) >> \o CompleteLines(Drop(s, i))

LineMatches(l) == ReMatch(Strip(Decode(l)))[1]

\* the complete lines of s that match the pattern
MatchingLines(s) == SelectSeq(CompleteLines(s), LineMatches)

\* C23: in a GPIO run in which no poll raised and no interrupt arrived, when
\* the polls have returned every byte the sensor sends, a complete matching
\* line among them, the loop has matched with the capture of the first such
\* line.  (Every later poll is empty and changes nothing, so the run ends in
\* Matched only if it has matched by then.)
C23_GpioMatchesPolledLine ==
    ( /\ SourceFor(config) = "gpio_pi"
      /\ pending = <<>>
      /\ MatchingLines(PolledSoFar) # <<>>
      /\ ~InSeq(failed, "bb_serial_read")
      /\ interrupted = "" )
        => /\ found # <<>>
           /\ found[2][2] = ReMatch(Strip(Decode(MatchingLines(PolledSoFar)[1])))[2]

\* C24: when a pigpio connection object was created, pi.stop() has been
\* called once read_from_ranger_gpio has returned or raised.
C24_StopAlwaysCalled ==
    (pi # "None" /\ pc \notin GpioPositions) => stop_calls >= 1

====
